---- MODULE Spec2Model ----
(***************************************************************************)
(* A model of the ark-infographic worker: the HTTP dispatcher and the      *)
(* request handler of src/src/index.ts with the shared response cache,     *)
(* the species table of src/src/species-data.ts, the color lookup of       *)
(* src/src/color-lookup.ts, the one-time rasterizer initialization of      *)
(* src/src/init.ts and the extraction script (src/unnamed/part_000).       *)
(*                                                                         *)
(* JSON values are tagged records: [t |-> "absent"] is JavaScript's        *)
(* undefined (a missing property), [t |-> "null"], [t |-> "str"],          *)
(* [t |-> "num"], [t |-> "arr"] and [t |-> "obj"] are the JSON kinds.      *)
(***************************************************************************)
EXTENDS Integers, Sequences, FiniteSets, TLC

VARIABLES
    req,          \* per request: its position in handleInfographic and what it did
    cache,        \* caches.default: cache key -> stored response
    initialized,  \* init.ts: the module-level flag
    initCalls,    \* how many times initRasterizer has been invoked
    values,       \* extraction: the upstream document (color and dye definitions)
    colors,       \* extraction: the color table extractColors returns
    colorMap,     \* color-lookup.ts: the id -> color map built from the table
    xpc,          \* extraction: position of the run
    valuesFile,       \* extraction: what reading the upstream document gives
    serverMultsFile,  \* extraction: what reading serverMultipliers.json gives
    preset,           \* extraction: the preset named on the command line
    statMultipliers,  \* extraction: the per-slot multipliers in use
    warnings,         \* extraction: the console.warn messages so far, in order
    speciesMeta,      \* extraction: the species table extractSpeciesMeta returns
    outputs,          \* extraction: the files written, by name
    sourceDir,    \* upload: the file names of the source directory
    dryRun,       \* upload: whether --dry-run was given
    spriteMap,    \* upload: the script's speciesMap, the parsed sprite files
    bucket,       \* the R2 bucket behind env.SPRITES: key -> the file stored
    manifest,     \* upload: the manifest written
    upc,          \* upload: position of the run
    statIn,       \* applyStatMultiplier: its arguments
    statOut,      \* applyStatMultiplier: its result
    regionIn,     \* region-color resolution: the species' regions and the request's ids
    regionOut     \* region-color resolution: the resolved list

workerVars == <<req, cache, initialized, initCalls>>
runVars == <<valuesFile, serverMultsFile, preset, statMultipliers, warnings,
             speciesMeta, outputs>>
extractVars == <<values, colors, colorMap, xpc, runVars>>
statVars == <<statIn, statOut>>
regionVars == <<regionIn, regionOut>>
uploadVars == <<sourceDir, dryRun, spriteMap, bucket, manifest, upc>>
vars == <<req, cache, initialized, initCalls, values, colors, colorMap, xpc,
          valuesFile, serverMultsFile, preset, statMultipliers, warnings,
          speciesMeta, outputs, sourceDir, dryRun, spriteMap, bucket, manifest,
          upc, statIn, statOut, regionIn, regionOut>>

----------------------------------------------------------------------------
(* Bounds *)

NumReq == 2        \* requests in one run of the concurrent specification
MaxBase == 202     \* most base-color definitions in an upstream document
MaxDye == 2        \* most dye definitions in an upstream document
MaxRaw == 2        \* largest magnitude of a raw stat value
MaxMult == 2       \* largest stat multiplier
MaxLevel == 2      \* largest entry of a level array

Reqs == 1..NumReq

----------------------------------------------------------------------------
(* JSON values and JavaScript's reading of them *)

Absent == [t |-> "absent"]
Null == [t |-> "null"]
Str(s) == [t |-> "str", s |-> s]
Num(n) == [t |-> "num", n |-> n]
Arr(a) == [t |-> "arr", a |-> a]

\* !!v
Truthy(v) ==
    CASE v.t = "absent" -> FALSE
      [] v.t = "null" -> FALSE
      [] v.t = "str" -> v.s # ""
      [] v.t = "num" -> v.n # 0
      [] OTHER -> TRUE

\* v.field for a v that is neither null nor undefined: a property the value
\* does not have reads as undefined
Get(v, field) ==
    IF v.t = "obj" /\ field \in DOMAIN v THEN v[field] ELSE Absent

\* v ?? d
Coalesce(v, d) == IF v.t \in {"absent", "null"} THEN d ELSE v

\* Array.isArray(v) && v.length === n
IsArrayOfLength(v, n) == v.t = "arr" /\ Len(v.a) = n

RECURSIVE SumSeq(_)
SumSeq(s) == IF s = <<>> THEN 0 ELSE Head(s) + SumSeq(Tail(s))

----------------------------------------------------------------------------
(* The generated tables the worker bundles *)

NumRegions == 6
NumStats == 12

\* species-meta.json, as extractSpeciesMeta writes it: here two species
SpeciesMeta ==
    "Rex" :> [enabledColorRegions |-> <<TRUE, TRUE, TRUE, FALSE, TRUE, TRUE>>]
    @@ "Dodo" :> [enabledColorRegions |-> <<TRUE, FALSE, FALSE, FALSE, FALSE, TRUE>>]

\* speciesMap is a plain object: a property read finds the members it
\* inherits from Object.prototype as well as its own keys
ObjectPrototypeKeys ==
    {"constructor", "toString", "toLocaleString", "valueOf", "hasOwnProperty",
     "isPrototypeOf", "propertyIsEnumerable", "__proto__",
     "__defineGetter__", "__defineSetter__", "__lookupGetter__", "__lookupSetter__"}

\* getSpeciesInfo(name): speciesMap[name]
getSpeciesInfo(name) ==
    IF name \in DOMAIN SpeciesMeta
    THEN [t |-> "entry", name |-> name,
          enabledColorRegions |-> SpeciesMeta[name].enabledColorRegions]
    ELSE IF name \in ObjectPrototypeKeys
    THEN [t |-> "inherited", name |-> name]
    ELSE Absent

getSpeciesNames == DOMAIN SpeciesMeta

----------------------------------------------------------------------------
(* Color table: extraction (extractColors) and the runtime lookup *)

\* the i-th color definition of an upstream document: [name, linearRgba]
ColorDef(kind, i) == <<(<<kind, i>>), (<<i % 2, (i \div 2) % 2, (i \div 4) % 2, 1>>)>>

\* an upstream document with n base colors and m dyes
ValuesJson(n, m) ==
    [colorDefinitions |-> [i \in 1..n |-> ColorDef("color", i)],
     dyeDefinitions |-> [i \in 1..m |-> ColorDef("dye", i)]]

FirstBaseId == 1
FirstDyeId == 201

\* extractColors with the dye ids starting one too low
extractColorsDyeFrom200(v) ==
    [k \in 1..(Len(v.colorDefinitions) + Len(v.dyeDefinitions)) |->
        IF k <= Len(v.colorDefinitions)
        THEN [id |-> (k - 1) + FirstBaseId,
              name |-> v.colorDefinitions[k][1],
              linearRgba |-> v.colorDefinitions[k][2],
              isDye |-> FALSE]
        ELSE [id |-> (FirstDyeId - 1) + (k - Len(v.colorDefinitions) - 1),
              name |-> v.dyeDefinitions[k - Len(v.colorDefinitions)][1],
              linearRgba |-> v.dyeDefinitions[k - Len(v.colorDefinitions)][2],
              isDye |-> TRUE]]

\* extractColors(values): the base colors, then the dyes, in input order
extractColors(v) ==
    [k \in 1..(Len(v.colorDefinitions) + Len(v.dyeDefinitions)) |->
        IF k <= Len(v.colorDefinitions)
        THEN [id |-> (k - 1) + FirstBaseId,
              name |-> v.colorDefinitions[k][1],
              linearRgba |-> v.colorDefinitions[k][2],
              isDye |-> FALSE]
        ELSE [id |-> FirstDyeId + (k - Len(v.colorDefinitions) - 1),
              name |-> v.dyeDefinitions[k - Len(v.colorDefinitions)][1],
              linearRgba |-> v.dyeDefinitions[k - Len(v.colorDefinitions)][2],
              isDye |-> TRUE]]

\* arkColorToSrgb on the endpoints of the transfer curve: linear 0 is 0 and
\* linear 1 is 255
arkColorToSrgb(linearRgba) ==
    [r |-> 255 * linearRgba[1], g |-> 255 * linearRgba[2],
     b |-> 255 * linearRgba[3], a |-> 255]

LIGHT_GRAY == [r |-> 211, g |-> 211, b |-> 211, a |-> 255]

\* the loop of color-lookup.ts: colorMap.set(entry.id, ...) for every entry in
\* table order, a later entry replacing an earlier one with the same id
BuildColorMap(table) ==
    LET ids == {table[k].id : k \in 1..Len(table)}
        setBy(id) == {k \in 1..Len(table) : table[k].id = id}
        last(id) == CHOOSE k \in setBy(id) : \A j \in setBy(id) : j <= k
    IN [id \in ids |-> arkColorToSrgb(table[last(id)].linearRgba)]

\* colorLookup.getColor(colorId) over a given map
getColorIn(map, colorId) ==
    IF colorId = 0 THEN LIGHT_GRAY
    ELSE IF colorId \in DOMAIN map THEN map[colorId]
    ELSE LIGHT_GRAY

\* the table the worker is built with: 3 base colors and 2 dyes
ColorsJson == extractColors(ValuesJson(3, 2))

RuntimeColorMap == BuildColorMap(ColorsJson)

getColor(colorId) == getColorIn(RuntimeColorMap, colorId)

----------------------------------------------------------------------------
(* Region-color resolution (handleInfographic, the loop over the 6 regions) *)

NoColor == [t |-> "null"]
Rgb(c) == [t |-> "rgb", r |-> c.r, g |-> c.g, b |-> c.b]

\* creature.colors[i] ?? 0, for the 0-based index i: an index past the end of
\* the array, or any index of a value that is no array, reads as undefined
ColorIdAt(colorsValue, i) ==
    IF colorsValue.t = "arr" /\ i + 1 <= Len(colorsValue.a)
    THEN colorsValue.a[i + 1]
    ELSE 0

\* the loop without the test of species.enabledColorRegions[i]
ResolveRegionColorsAnyRegion(enabled, colorsValue) ==
    [k \in 1..NumRegions |->
        IF ColorIdAt(colorsValue, k - 1) # 0
        THEN Rgb(getColor(ColorIdAt(colorsValue, k - 1)))
        ELSE NoColor]

\* the regionColors list: one entry per region index 0..5
ResolveRegionColors(enabled, colorsValue) ==
    [k \in 1..NumRegions |->
        IF enabled[k] /\ ColorIdAt(colorsValue, k - 1) # 0
        THEN Rgb(getColor(ColorIdAt(colorsValue, k - 1)))
        ELSE NoColor]

----------------------------------------------------------------------------
(* Dispatcher and request handler (src/src/index.ts) *)

\* export default fetch: which handler a (method, path) pair reaches
Dispatch(method, path) ==
    IF path = "/api/infographic" /\ method = "POST" THEN "infographic"
    ELSE IF path = "/api/species" /\ method = "GET" THEN "species"
    ELSE IF path = "/api/health" THEN "health"
    ELSE "notfound"

NoResp == [status |-> 0, ctype |-> "", payload |-> [kind |-> "none"]]

\* Response.json({error}, {status: 400}); the message is a list of its parts
JsonError(msg) ==
    [status |-> 400, ctype |-> "application/json",
     payload |-> [kind |-> "error", error |-> msg]]

\* an exception that leaves fetch: the platform's opaque failure
Unhandled == [status |-> 500, ctype |-> "", payload |-> [kind |-> "unhandled"]]

RouteResponse(route) ==
    CASE route = "species" ->
            [status |-> 200, ctype |-> "application/json",
             payload |-> [kind |-> "names", names |-> getSpeciesNames]]
      [] route = "health" ->
            [status |-> 200, ctype |-> "text/plain",
             payload |-> [kind |-> "text", text |-> "OK"]]
      [] OTHER ->
            [status |-> 404, ctype |-> "text/plain",
             payload |-> [kind |-> "text", text |-> "Not Found"]]

\* A request body is its text: [t |-> "invalid"] is text that is no JSON,
\* [t |-> "json", json |-> v, ws |-> k] is the k-th spelling of the JSON value v
\* (spellings differ in whitespace only).
NoText == [t |-> "none"]

\* a cache key built without the body
BuildCacheKeyNoBody(text) == [url |-> "https://cache.internal/infographic:", sha256 |-> NoText]

\* buildCacheKey: the SHA-256 digest of the body text, taken as collision-free
BuildCacheKey(text) == [url |-> "https://cache.internal/infographic:", sha256 |-> text]

\* the two checks of the parsed body: "throw" is a TypeError raised by
\* body.creature on a body that is null
Validate(body) ==
    IF body.t = "null" THEN "throw"
    ELSE LET creature == Get(body, "creature") IN
         IF \/ ~Truthy(Get(creature, "speciesName"))
            \/ ~Truthy(Get(creature, "levelsWild"))
            \/ ~Truthy(Get(creature, "levelsDom"))
         THEN "missing"
         ELSE IF \/ ~IsArrayOfLength(Get(creature, "levelsWild"), NumStats)
                 \/ ~IsArrayOfLength(Get(creature, "levelsDom"), NumStats)
         THEN "shape"
         ELSE "ok"

MissingFieldsError ==
    JsonError(<<"Missing required fields: creature.speciesName, creature.levelsWild, creature.levelsDom">>)
ShapeError ==
    JsonError(<<"levelsWild and levelsDom must be arrays of exactly 12 numbers">>)
UnknownSpeciesError(name) == JsonError(<<"Unknown species: ", name>>)
InvalidJsonError == JsonError(<<"Invalid JSON body">>)

\* body.creature.speciesName of a validated body
SpeciesNameOf(body) == Get(Get(body, "creature"), "speciesName").s

\* a creature whose level fields are read from the request when it has them
CreatureLevelFromBody(body) ==
    LET c == Get(body, "creature")
        levelsWild == Get(c, "levelsWild").a
        levelsDom == Get(c, "levelsDom").a
        torpidityWild == levelsWild[3]
        domSum == SumSeq(levelsDom)
    IN [speciesName |-> SpeciesNameOf(body),
        levelsWild |-> levelsWild,
        levelsDom |-> levelsDom,
        colors |-> Coalesce(Get(c, "colors"), Arr(<<0, 0, 0, 0, 0, 0>>)),
        level |-> Coalesce(Get(c, "level"), Num(torpidityWild + 1 + domSum)).n,
        levelHatched |-> Coalesce(Get(c, "levelHatched"), Num(torpidityWild + 1)).n]

\* the CreatureData handed to the renderer (the fields the model follows)
Creature(body) ==
    LET c == Get(body, "creature")
        levelsWild == Get(c, "levelsWild").a
        levelsDom == Get(c, "levelsDom").a
        torpidityWild == levelsWild[3]
        domSum == SumSeq(levelsDom)
    IN [speciesName |-> SpeciesNameOf(body),
        levelsWild |-> levelsWild,
        levelsDom |-> levelsDom,
        colors |-> Coalesce(Get(c, "colors"), Arr(<<0, 0, 0, 0, 0, 0>>)),
        level |-> torpidityWild + 1 + domSum,
        levelHatched |-> torpidityWild + 1]

\* server.game: body.game ?? "ASA"
GameOf(body) == Coalesce(Get(body, "game"), Str("ASA")).s

\* body.options?.format ?? "svg"; only "png" selects the rasterizer
FormatOf(body) ==
    IF Coalesce(Get(Get(body, "options"), "format"), Str("svg")) = Str("png")
    THEN "png" ELSE "svg"

SpriteSuffix(game) == IF game = "ASA" THEN "_ASA" ELSE ""
BaseKey(speciesName, game) == <<speciesName, SpriteSuffix(game), ".png">>
MaskKey(speciesName, game) == <<speciesName, SpriteSuffix(game), "_m.png">>

NoImage == [t |-> "none"]

\* the try block with a missing mask treated like a missing base
SpriteImageMaskRequired(species, creature, game, base, mask, colorize) ==
    IF base = "fail" \/ mask = "fail" THEN NoImage
    ELSE IF base = "absent" \/ mask = "absent" THEN NoImage
    ELSE IF species.t # "entry" THEN NoImage
    ELSE IF colorize = "throw" THEN NoImage
    ELSE [t |-> "datauri", image |-> "colorized",
          key |-> BaseKey(creature.speciesName, game),
          maskKey |-> MaskKey(creature.speciesName, game),
          regionColors |-> ResolveRegionColors(species.enabledColorRegions,
                                               creature.colors)]

\* creatureImageDataUri after the try block. base and mask are the outcomes of
\* the two SPRITES.get calls ("present", "absent" or "fail": the call or the
\* read of the object rejects), colorize the outcome of colorizeCreature ("ok"
\* or "throw"). A species that is no table entry has no enabledColorRegions:
\* reading its region i raises a TypeError inside the try block.
SpriteImage(species, creature, game, base, mask, colorize) ==
    IF base = "fail" \/ mask = "fail" THEN NoImage
    ELSE IF base = "absent" THEN NoImage
    ELSE IF mask = "absent"
    THEN [t |-> "datauri", image |-> "base",
          key |-> BaseKey(creature.speciesName, game)]
    ELSE IF species.t # "entry" THEN NoImage
    ELSE IF colorize = "throw" THEN NoImage
    ELSE [t |-> "datauri", image |-> "colorized",
          key |-> BaseKey(creature.speciesName, game),
          maskKey |-> MaskKey(creature.speciesName, game),
          regionColors |-> ResolveRegionColors(species.enabledColorRegions,
                                               creature.colors)]

\* renderInfoGraphicSvg / renderInfoGraphicPng: a function of its arguments
RenderResponse(body, species, image) ==
    [status |-> 200,
     ctype |-> IF FormatOf(body) = "png" THEN "image/png" ELSE "image/svg+xml",
     payload |-> [kind |-> "infographic", creature |-> Creature(body),
                  species |-> species, game |-> GameOf(body), image |-> image]]

----------------------------------------------------------------------------
(* Request inputs *)

\* a JSON object with the given properties; a property given as Absent is
\* left out
MkObj(f) ==
    [k \in {k \in DOMAIN f : f[k] # Absent} \cup {"t"} |->
        IF k = "t" THEN "obj" ELSE f[k]]

Zeros(n) == [i \in 1..n |-> 0]

Methods == {"GET", "POST"}
Paths == {"/api/infographic", "/api/species", "/api/health", "/other"}

SpeciesNameInputs ==
    {Absent, Str(""), Str("Rex"), Str("Dodo"), Str("Unicorn"),
     Str("constructor"), Str("__proto__")}
LevelInputs ==
    {Absent, Num(0), Str("12"), Arr(Zeros(NumStats - 1)), Arr(Zeros(NumStats)),
     Arr(Zeros(NumStats + 1))}
ColorInputs == {Absent, Arr(<<1, 5, 0, 2, 201, 0>>)}
GameInputs == {Absent, Str("ASE")}
FormatInputs == {Absent, Str("png")}

CreatureInputs ==
    {Absent, Null} \cup
    {MkObj([speciesName |-> n, levelsWild |-> w, levelsDom |-> d, colors |-> c]) :
        n \in SpeciesNameInputs, w \in LevelInputs, d \in LevelInputs,
        c \in ColorInputs}

BodyInputs ==
    {Null, Num(5)} \cup
    {MkObj([creature |-> c, game |-> g,
            options |-> IF f = Absent THEN Absent ELSE MkObj([format |-> f])]) :
        c \in CreatureInputs, g \in GameInputs, f \in FormatInputs}

Json(v, k) == [t |-> "json", json |-> v, ws |-> k]

\* every body text of the single-request specification
AllTexts == {[t |-> "invalid"]} \cup {Json(v, 0) : v \in BodyInputs}

ValidBody(species, format) ==
    MkObj([creature |-> MkObj([speciesName |-> Str(species),
                               levelsWild |-> Arr(Zeros(NumStats)),
                               levelsDom |-> Arr(Zeros(NumStats)),
                               colors |-> Arr(<<1, 5, 0, 2, 201, 0>>)]),
           options |-> IF format = "svg" THEN Absent
                       ELSE MkObj([format |-> Str(format)])])

\* the body texts of the concurrent specification: a valid SVG request and a
\* valid PNG request
SharedTexts == {Json(ValidBody("Rex", "svg"), 0), Json(ValidBody("Rex", "png"), 0)}

\* 12-length level arrays that differ at the 0-based indices i and j
LevelArrays(i, j) ==
    {[k \in 1..NumStats |-> IF k = i + 1 THEN a ELSE IF k = j + 1 THEN b ELSE 0] :
        a \in 0..MaxLevel, b \in 0..MaxLevel}

\* what a caller may put under creature.level and creature.levelHatched
LevelFieldInputs == {Absent, Num(99)}

\* the body texts of the level specification: valid requests for a registered
\* species, over level arrays and caller-supplied level fields
LevelTexts ==
    {Json(MkObj([creature |-> MkObj([speciesName |-> Str("Rex"),
                                     levelsWild |-> Arr(w), levelsDom |-> Arr(d),
                                     level |-> l, levelHatched |-> h]),
                 options |-> IF f = Absent THEN Absent ELSE MkObj([format |-> f])]), 0) :
        w \in LevelArrays(1, 2), d \in LevelArrays(0, 11),
        l \in LevelFieldInputs, h \in LevelFieldInputs, f \in FormatInputs}

FetchOutcomes == {"present", "absent", "fail"}

----------------------------------------------------------------------------
(* State of the worker *)

IdleReq ==
    [pc |-> "idle", method |-> "", path |-> "", text |-> NoText,
     resp |-> NoResp, hit |-> FALSE, parsed |-> FALSE, lookedUp |-> FALSE,
     computed |-> FALSE, fetched |-> FALSE, rendered |-> FALSE,
     put |-> "none", base |-> "n/a", mask |-> "n/a", colorize |-> "n/a",
     image |-> NoImage, after |-> {}, landed |-> {}]

WorkerInit ==
    /\ req = [r \in Reqs |-> IdleReq]
    /\ cache = <<>>
    /\ initialized = FALSE
    /\ initCalls = 0

BodyOf(r) == req[r].text.json
SpeciesOf(r) == getSpeciesInfo(SpeciesNameOf(BodyOf(r)))

\* what a call into the ark-infographic library can do: with a species that is
\* a table entry it returns; with any other value its behaviour is not known
ExternalOutcomes(species) ==
    IF species.t = "entry" THEN {"returns"} ELSE {"returns", "throws"}

\* render dispatch to the end of handleInfographic, for the request record
\* rec: render, hand the cache write to ctx.waitUntil, return the response
Finish(rec, ext) ==
    IF ext = "throws"
    THEN [rec EXCEPT !.pc = "done", !.resp = Unhandled]
    ELSE [rec EXCEPT !.pc = "done", !.rendered = TRUE,
                     !.resp = RenderResponse(rec.text.json,
                                 getSpeciesInfo(SpeciesNameOf(rec.text.json)),
                                 rec.image),
                     !.put = "pending"]

\* fetch: route the request; requests are numbered in order of arrival
Arrive(r, method, path, text) ==
    /\ req[r].pc = "idle"
    /\ \A q \in Reqs : q < r => req[q].pc # "idle"
    /\ req' = [req EXCEPT ![r] =
            IF Dispatch(method, path) = "infographic"
            THEN [@ EXCEPT !.pc = "probe", !.method = method, !.path = path,
                           !.text = text,
                           !.after = {q \in Reqs : req[q].pc = "done"}]
            ELSE [@ EXCEPT !.pc = "done", !.method = method, !.path = path,
                           !.resp = RouteResponse(Dispatch(method, path))]]
    /\ UNCHANGED <<cache, initialized, initCalls, extractVars, statVars, regionVars, uploadVars>>

\* handleInfographic without the early return on a cached response
ProbeWithoutReturn(r) ==
    /\ req[r].pc = "probe"
    /\ req' = [req EXCEPT ![r].pc = "parse",
                          ![r].landed = {q \in Reqs : req[q].put = "landed"}]
    /\ UNCHANGED <<cache, initialized, initCalls, extractVars, statVars, regionVars, uploadVars>>

\* handleInfographic up to cache.match
Probe(r) ==
    /\ req[r].pc = "probe"
    /\ req' = [req EXCEPT ![r] =
            IF BuildCacheKey(req[r].text) \in DOMAIN cache
            THEN [@ EXCEPT !.pc = "done", !.hit = TRUE,
                           !.resp = cache[BuildCacheKey(req[r].text)],
                           !.landed = {q \in Reqs : req[q].put = "landed"}]
            ELSE [@ EXCEPT !.pc = "parse",
                           !.landed = {q \in Reqs : req[q].put = "landed"}]]
    /\ UNCHANGED <<cache, initialized, initCalls, extractVars, statVars, regionVars, uploadVars>>

\* request.json(), the two validations, the species lookup and
\* computeStatValues, up to the start of the sprite fetches
Parse(r, ext) ==
    /\ req[r].pc = "parse"
    /\ req' = [req EXCEPT ![r] =
            IF req[r].text.t = "invalid"
            THEN [@ EXCEPT !.pc = "done", !.parsed = TRUE, !.resp = InvalidJsonError]
            ELSE CASE Validate(BodyOf(r)) = "throw" ->
                        [@ EXCEPT !.pc = "done", !.parsed = TRUE, !.resp = Unhandled]
                   [] Validate(BodyOf(r)) = "missing" ->
                        [@ EXCEPT !.pc = "done", !.parsed = TRUE,
                                  !.resp = MissingFieldsError]
                   [] Validate(BodyOf(r)) = "shape" ->
                        [@ EXCEPT !.pc = "done", !.parsed = TRUE, !.resp = ShapeError]
                   [] OTHER ->
                        IF ~Truthy(SpeciesOf(r))
                        THEN [@ EXCEPT !.pc = "done", !.parsed = TRUE,
                                       !.lookedUp = TRUE,
                                       !.resp = UnknownSpeciesError(SpeciesNameOf(BodyOf(r)))]
                        ELSE IF ext = "throws"
                        THEN [@ EXCEPT !.pc = "done", !.parsed = TRUE,
                                       !.lookedUp = TRUE, !.computed = TRUE,
                                       !.resp = Unhandled]
                        ELSE [@ EXCEPT !.pc = "fetch", !.parsed = TRUE,
                                       !.lookedUp = TRUE, !.computed = TRUE]]
    /\ ext \in
            IF req[r].text.t = "json" /\ Validate(BodyOf(r)) = "ok"
               /\ Truthy(SpeciesOf(r))
            THEN ExternalOutcomes(SpeciesOf(r)) ELSE {"returns"}
    /\ UNCHANGED <<cache, initialized, initCalls, extractVars, statVars, regionVars, uploadVars>>

\* whether colorizeCreature is reached
ColorizeCalled(species, base, mask) ==
    base = "present" /\ mask = "present" /\ species.t = "entry"

\* the try block: both fetches settle, the image is colorized; then, for SVG
\* output, the rest of the handler
Sprites(r, base, mask, colorize, ext) ==
    /\ req[r].pc = "fetch"
    /\ colorize \in IF ColorizeCalled(SpeciesOf(r), base, mask)
                     THEN {"ok", "throw"} ELSE {"n/a"}
    /\ LET image == SpriteImage(SpeciesOf(r), Creature(BodyOf(r)),
                                GameOf(BodyOf(r)), base, mask, colorize)
           got == [req EXCEPT ![r].fetched = TRUE, ![r].base = base,
                              ![r].mask = mask, ![r].colorize = colorize,
                              ![r].image = image]
       IN IF FormatOf(BodyOf(r)) = "png"
          THEN /\ ext = "returns"
               /\ req' = [got EXCEPT ![r].pc = "init"]
          ELSE /\ ext \in ExternalOutcomes(SpeciesOf(r))
               /\ req' = [got EXCEPT ![r] = Finish(got[r], ext)]
    /\ UNCHANGED <<cache, initialized, initCalls, extractVars, statVars, regionVars, uploadVars>>

\* ensureInitialized up to its await: return at once when the flag is set,
\* else call initRasterizer and suspend
EnsureInitialized(r, ext) ==
    /\ req[r].pc = "init"
    /\ IF initialized
       THEN /\ ext \in ExternalOutcomes(SpeciesOf(r))
            /\ req' = [req EXCEPT ![r] = Finish(req[r], ext)]
            /\ UNCHANGED <<initialized, initCalls>>
       ELSE /\ ext = "returns"
            /\ req' = [req EXCEPT ![r].pc = "initwait"]
            /\ initCalls' = initCalls + 1
            /\ UNCHANGED initialized
    /\ UNCHANGED <<cache, extractVars, statVars, regionVars, uploadVars>>

\* initRasterizer resolves: the flag is set and the PNG is rendered
InitResolved(r, ext) ==
    /\ req[r].pc = "initwait"
    /\ ext \in ExternalOutcomes(SpeciesOf(r))
    /\ initialized' = TRUE
    /\ req' = [req EXCEPT ![r] = Finish(req[r], ext)]
    /\ UNCHANGED <<cache, initCalls, extractVars, statVars, regionVars, uploadVars>>

\* a background write that stores nothing
PutLandsNowhere(r) ==
    /\ req[r].put = "pending"
    /\ req' = [req EXCEPT ![r].put = "landed"]
    /\ UNCHANGED <<cache, initialized, initCalls, extractVars, statVars, regionVars, uploadVars>>

\* the background cache.put(cacheKey, response.clone()) completes
PutLands(r) ==
    /\ req[r].put = "pending"
    /\ cache' = (BuildCacheKey(req[r].text) :> req[r].resp) @@ cache
    /\ req' = [req EXCEPT ![r].put = "landed"]
    /\ UNCHANGED <<initialized, initCalls, extractVars, statVars, regionVars, uploadVars>>

Externals == {"returns", "throws"}
ColorizeOutcomes == {"ok", "throw", "n/a"}

\* the variables of the other programs, at rest
NoFile == [t |-> "none"]
RunIdle ==
    /\ valuesFile = NoFile /\ serverMultsFile = NoFile /\ preset = ""
    /\ statMultipliers = Absent /\ warnings = <<>> /\ speciesMeta = <<>>
    /\ outputs = <<>>
ExtractIdle ==
    /\ values = ValuesJson(0, 0) /\ colors = <<>> /\ colorMap = <<>> /\ xpc = "off"
    /\ RunIdle
StatIdle == statIn = <<>> /\ statOut = <<>>
RegionIdle == regionIn = <<>> /\ regionOut = <<>>
UploadIdle ==
    /\ sourceDir = {} /\ dryRun = FALSE /\ spriteMap = {} /\ bucket = <<>>
    /\ manifest = <<>> /\ upc = "off"

\* Concurrent requests to POST /api/infographic
Init == WorkerInit /\ ExtractIdle /\ StatIdle /\ RegionIdle /\ UploadIdle

Next ==
    \E r \in Reqs :
        \/ /\ req[r].pc = "idle"
           /\ \E text \in SharedTexts : Arrive(r, "POST", "/api/infographic", text)
        \/ Probe(r)
        \/ \E ext \in Externals : Parse(r, ext)
        \/ \E base \in {"present", "fail"}, mask \in {"present", "absent"},
              colorize \in {"ok", "n/a"} :
                Sprites(r, base, mask, colorize, "returns")
        \/ \E ext \in Externals : EnsureInitialized(r, ext)
        \/ \E ext \in Externals : InitResolved(r, ext)
        \/ PutLands(r)

Spec == Init /\ [][Next]_vars

\* One request at a time, over every method, path and body
NextOne ==
    \/ /\ req[1].pc = "idle"
       /\ \E method \in Methods, path \in Paths, text \in AllTexts :
            Arrive(1, method, path, text)
    \/ Probe(1)
    \/ \E ext \in Externals : Parse(1, ext)
    \/ \E base \in FetchOutcomes, mask \in FetchOutcomes,
          colorize \in ColorizeOutcomes, ext \in Externals :
            Sprites(1, base, mask, colorize, ext)
    \/ \E ext \in Externals : EnsureInitialized(1, ext)
    \/ \E ext \in Externals : InitResolved(1, ext)
    \/ PutLands(1)

SpecOne == Init /\ [][NextOne]_vars

\* One request to POST /api/infographic, over level arrays and level fields
NextLevels ==
    \/ /\ req[1].pc = "idle"
       /\ \E text \in LevelTexts : Arrive(1, "POST", "/api/infographic", text)
    \/ Probe(1)
    \/ Parse(1, "returns")
    \/ \E base \in {"present", "absent"} : Sprites(1, base, "absent", "n/a", "returns")
    \/ EnsureInitialized(1, "returns")
    \/ InitResolved(1, "returns")
    \/ PutLands(1)

SpecLevels == Init /\ [][NextLevels]_vars

----------------------------------------------------------------------------
(* Extraction of the color table, and its load into the runtime map *)

\* const colors = extractColors(values)
ExtractColorsStep ==
    /\ xpc = "start"
    /\ colors' = extractColors(values)
    /\ xpc' = "extracted"
    /\ UNCHANGED <<values, colorMap, runVars, workerVars, statVars, regionVars, uploadVars>>

\* module load of color-lookup.ts over the written colors.json
LoadColorMap ==
    /\ xpc = "extracted"
    /\ colorMap' = BuildColorMap(colors)
    /\ xpc' = "loaded"
    /\ UNCHANGED <<values, colors, runVars, workerVars, statVars, regionVars, uploadVars>>

InitColors ==
    /\ WorkerInit /\ StatIdle /\ RegionIdle /\ RunIdle /\ UploadIdle
    /\ values \in {ValuesJson(n, m) : n \in 0..MaxBase, m \in 0..MaxDye}
    /\ colors = <<>>
    /\ colorMap = <<>>
    /\ xpc = "start"

NextColors == ExtractColorsStep \/ LoadColorMap

SpecColors == InitColors /\ [][NextColors]_vars

----------------------------------------------------------------------------
(* applyStatMultiplier *)

\* applyStatMultiplier without the guard on the sign of indices 3 and 4
applyStatMultiplierUnguarded(raw, mult) ==
    <<raw[1], raw[2] * mult[4], raw[3] * mult[3], raw[4] * mult[1], raw[5] * mult[2]>>

\* raw is [BaseValue, IncPerWildLevel, IncPerDomLevel, AddWhenTamed,
\* MultAffinity], mult is [TamingAdd, TamingMult, DomLevel, WildLevel]; the
\* 0-based index i of the source is i + 1 here
applyStatMultiplier(raw, mult) ==
    <<raw[1],
      raw[2] * mult[4],
      raw[3] * mult[3],
      raw[4] * (IF raw[4] > 0 THEN mult[1] ELSE 1),
      raw[5] * (IF raw[5] > 0 THEN mult[2] ELSE 1)>>

RawValues == {0 - MaxRaw, 0, MaxRaw}
MultValues == {0, 1, MaxMult}

ApplyStat ==
    /\ statOut = <<>>
    /\ statOut' = applyStatMultiplier(statIn.raw, statIn.mult)
    /\ UNCHANGED <<statIn, workerVars, extractVars, regionVars, uploadVars>>

InitStat ==
    /\ WorkerInit /\ ExtractIdle /\ RegionIdle /\ UploadIdle
    /\ statIn \in {[raw |-> r, mult |-> m] :
                        r \in [1..5 -> RawValues], m \in [1..4 -> MultValues]}
    /\ statOut = <<>>

SpecStat == InitStat /\ [][ApplyStat]_vars

----------------------------------------------------------------------------
(* The extraction run (scripts/extract-data.ts, main) *)

\* readFileSync followed by JSON.parse gives one of: [t |-> "unreadable"] (the
\* read throws), [t |-> "invalid"] (the text is no JSON, the parse throws),
\* [t |-> "json", json |-> v]
Unreadable == [t |-> "unreadable"]
Unparsable == [t |-> "invalid"]
JsonFile(v) == [t |-> "json", json |-> v]

DEFAULT_STAT_MULT == <<1, 1, 1, 1>>

\* a[i] for the 0-based index i of a JSON value that is neither null nor
\* undefined: an index the value does not have reads as undefined
ElementAt(a, i) ==
    IF a.t = "arr" /\ i + 1 <= Len(a.a) THEN a.a[i + 1] ELSE Absent

\* the species of the upstream document: Rex has data in stat slots 0, 2, 3
\* and 11, an explicit null in slot 1 and a tuple that is too short in slot 4;
\* Dodo has no stat data and no color regions
UpstreamSpecies ==
    <<[name |-> "Rex",
       colors |-> Arr(<<MkObj([name |-> Str("Body")]), MkObj([name |-> Str("Spine")]),
                        MkObj([name |-> Str("Back")]), Null,
                        MkObj([name |-> Str("Belly")]), MkObj([name |-> Str("Feet")])>>),
       fullStatsRaw |-> Arr([k \in 1..NumStats |->
            CASE k = 1 -> Arr(<<MaxRaw, 1, 1, MaxRaw, 1>>)
              [] k = 2 -> Null
              [] k = 3 -> Arr(<<1, MaxRaw, 1, 0 - MaxRaw, 0>>)
              [] k = 4 -> Arr(<<1, 1, MaxRaw, 0, 0 - 1>>)
              [] k = 5 -> Arr(<<1, 1>>)
              [] k = 12 -> Arr(<<1, 1, 1, 1, MaxRaw>>)
              [] OTHER -> Null])],
      [name |-> "Dodo", colors |-> Absent, fullStatsRaw |-> Absent]>>

\* a readable, parsable upstream document
UpstreamValues(n, m) ==
    [colorDefinitions |-> ValuesJson(n, m).colorDefinitions,
     dyeDefinitions |-> ValuesJson(n, m).dyeDefinitions,
     species |-> UpstreamSpecies]

\* statMultipliers[i] ?? DEFAULT_STAT_MULT
MultAt(mults, i) == Coalesce(ElementAt(mults, i), Arr(DEFAULT_STAT_MULT)).a

\* the fullStatsRaw list of one species: 12 slots, each the scaled tuple or null
FullStatsRaw(sp, mults) ==
    [k \in 1..NumStats |->
        LET raw == IF sp.fullStatsRaw.t \in {"absent", "null"} THEN Absent
                   ELSE ElementAt(sp.fullStatsRaw, k - 1)
        IN IF raw.t \notin {"absent", "null"} /\ Len(raw.a) >= 5
           THEN Arr(applyStatMultiplier(SubSeq(raw.a, 1, 5), MultAt(mults, k - 1)))
           ELSE Null]

\* the enabledColorRegions list of one species
EnabledColorRegions(sp) ==
    [k \in 1..NumRegions |->
        IF Truthy(sp.colors)
        THEN ElementAt(sp.colors, k - 1).t \notin {"absent", "null"}
        ELSE FALSE]

\* extractSpeciesMeta(values, statMultipliers): one entry per species name, a
\* later species replacing an earlier one of the same name
extractSpeciesMeta(v, mults) ==
    LET sps == v.species
        named(n) == {k \in 1..Len(sps) : sps[k].name = n}
        last(n) == CHOOSE k \in named(n) : \A j \in named(n) : j <= k
    IN [n \in {sps[k].name : k \in 1..Len(sps)} |->
            [enabledColorRegions |-> EnabledColorRegions(sps[last(n)]),
             fullStatsRaw |-> FullStatsRaw(sps[last(n)], mults),
             usedStats |-> [k \in 1..NumStats |->
                                FullStatsRaw(sps[last(n)], mults)[k] # Null]]]

\* dict[key] on a parsed JSON object: its own property, or the member a plain
\* object inherits from Object.prototype (which has no statMultipliers)
Member(dict, key) ==
    IF dict.t = "obj" /\ key \in DOMAIN dict THEN dict[key]
    ELSE IF key \in ObjectPrototypeKeys THEN [t |-> "inherited"]
    ELSE Absent

\* the body of the try block: "throw" when the read, the parse or a property
\* read of null or undefined throws, else presetData?.statMultipliers
PresetMultipliers(file, name) ==
    IF file.t # "json" THEN [t |-> "throw"]
    ELSE IF file.json.t \in {"absent", "null"} THEN [t |-> "throw"]
    ELSE IF Get(file.json, "serverMultiplierDictionary").t \in {"absent", "null"}
    THEN [t |-> "throw"]
    ELSE LET presetData == Member(Get(file.json, "serverMultiplierDictionary"), name)
         IN IF presetData.t \in {"absent", "null"} THEN Absent
            ELSE Get(presetData, "statMultipliers")

\* const raw = readFileSync(valuesPath); const values = JSON.parse(raw): a
\* throw here ends the run
ReadValues ==
    /\ xpc = "read"
    /\ IF valuesFile.t = "json"
       THEN values' = valuesFile.json /\ xpc' = "mults"
       ELSE UNCHANGED values /\ xpc' = "aborted"
    /\ UNCHANGED <<colors, colorMap, runVars, workerVars, statVars, regionVars, uploadVars>>

\* the multiplier loading with its catch clause left out
LoadServerMultipliersNoCatch ==
    /\ xpc = "mults"
    /\ LET sm == PresetMultipliers(serverMultsFile, preset)
       IN IF sm.t = "throw"
          THEN /\ xpc' = "aborted"
               /\ UNCHANGED <<statMultipliers, warnings>>
          ELSE /\ xpc' = "start"
               /\ IF Truthy(sm)
                  THEN /\ statMultipliers' = sm
                       /\ UNCHANGED warnings
                  ELSE /\ statMultipliers' = Arr([k \in 1..NumStats |-> Null])
                       /\ warnings' = Append(warnings, "preset not found or has no statMultipliers")
    /\ UNCHANGED <<values, colors, colorMap, valuesFile, serverMultsFile, preset,
                   speciesMeta, outputs, workerVars, statVars, regionVars, uploadVars>>

\* let statMultipliers = new Array(12).fill(null), then the try/catch
LoadServerMultipliers ==
    /\ xpc = "mults"
    /\ xpc' = "start"
    /\ LET sm == PresetMultipliers(serverMultsFile, preset)
       IN IF sm.t = "throw"
          THEN /\ statMultipliers' = Arr([k \in 1..NumStats |-> Null])
               /\ warnings' = Append(warnings, "could not read serverMultipliers.json")
          ELSE IF Truthy(sm)
          THEN /\ statMultipliers' = sm
               /\ UNCHANGED warnings
          ELSE /\ statMultipliers' = Arr([k \in 1..NumStats |-> Null])
               /\ warnings' = Append(warnings, "preset not found or has no statMultipliers")
    /\ UNCHANGED <<values, colors, colorMap, valuesFile, serverMultsFile, preset,
                   speciesMeta, outputs, workerVars, statVars, regionVars, uploadVars>>

\* const speciesMeta = extractSpeciesMeta(values, statMultipliers)
ExtractSpeciesMetaStep ==
    /\ xpc = "extracted"
    /\ speciesMeta' = extractSpeciesMeta(values, statMultipliers)
    /\ xpc' = "meta"
    /\ UNCHANGED <<values, colors, colorMap, valuesFile, serverMultsFile, preset,
                   statMultipliers, warnings, outputs, workerVars, statVars,
                   regionVars, uploadVars>>

\* writeFileSync(colorsPath, JSON.stringify(colors, null, 2))
WriteColors ==
    /\ xpc = "meta"
    /\ outputs' = ("colors.json" :> colors) @@ outputs
    /\ xpc' = "wroteColors"
    /\ UNCHANGED <<values, colors, colorMap, valuesFile, serverMultsFile, preset,
                   statMultipliers, warnings, speciesMeta, workerVars, statVars,
                   regionVars, uploadVars>>

\* writeFileSync(speciesPath, JSON.stringify(speciesMeta, null, 2))
WriteSpeciesMeta ==
    /\ xpc = "wroteColors"
    /\ outputs' = ("species-meta.json" :> speciesMeta) @@ outputs
    /\ xpc' = "done"
    /\ UNCHANGED <<values, colors, colorMap, valuesFile, serverMultsFile, preset,
                   statMultipliers, warnings, speciesMeta, workerVars, statVars,
                   regionVars, uploadVars>>

\* the multiplier tuples of a preset, and its statMultipliers lists: 12 or 11
\* entries, or none, with null in any of the slots 0, 2 and 11
MultTuples == {Arr(<<a, b, MaxMult, MaxMult>>) : a \in MultValues, b \in MultValues}

MultLists ==
    {[k \in 1..n |-> IF k - 1 \in holes THEN Null ELSE m] :
        n \in {0, NumStats - 1, NumStats}, holes \in SUBSET {0, 2, 11},
        m \in MultTuples}

PresetInputs ==
    {MkObj([statMultipliers |-> Absent]), MkObj([statMultipliers |-> Null])}
    \cup {MkObj([statMultipliers |-> Arr(l)]) : l \in MultLists}

\* what reading serverMultipliers.json can give
ServerMultsInputs ==
    {Unreadable, Unparsable, JsonFile(Null), JsonFile(MkObj([other |-> Num(1)])),
     JsonFile(MkObj([serverMultiplierDictionary |-> Null])),
     JsonFile(MkObj([serverMultiplierDictionary |-> MkObj([other |-> Absent])]))}
    \cup {JsonFile(MkObj([serverMultiplierDictionary |-> MkObj([official |-> p])])) :
            p \in PresetInputs}

\* --preset <name>, "official" when not given
PresetNames == {"official", "custom", "constructor"}

InitRun ==
    /\ WorkerInit /\ StatIdle /\ RegionIdle /\ UploadIdle
    /\ valuesFile \in {Unreadable, Unparsable, JsonFile(UpstreamValues(3, 2))}
    /\ serverMultsFile \in ServerMultsInputs
    /\ preset \in PresetNames
    /\ values = ValuesJson(0, 0) /\ colors = <<>> /\ colorMap = <<>>
    /\ statMultipliers = Absent /\ warnings = <<>> /\ speciesMeta = <<>>
    /\ outputs = <<>>
    /\ xpc = "read"

NextRun ==
    \/ ReadValues
    \/ LoadServerMultipliers
    \/ ExtractColorsStep
    \/ ExtractSpeciesMetaStep
    \/ WriteColors
    \/ WriteSpeciesMeta

SpecRun == InitRun /\ [][NextRun]_vars

----------------------------------------------------------------------------
(* The sprite upload (scripts/upload-sprites.ts) and the bucket it fills *)

\* A file name or object key is the list of its parts; KeyString joins the
\* parts into one canonical list, so that two keys are the same string exactly
\* when their KeyStrings are equal: "" adds nothing, and "_m.png" is "_m"
\* followed by ".png".
PartsOf(t) ==
    IF t = "" THEN <<>>
    ELSE IF t = "_m.png" THEN <<"_m", ".png">>
    ELSE <<t>>

RECURSIVE KeyString(_)
KeyString(k) == IF k = <<>> THEN <<>> ELSE PartsOf(Head(k)) \o KeyString(Tail(k))

Front(q) == SubSeq(q, 1, Len(q) - 1)
EndsWith(q, t) == q # <<>> /\ q[Len(q)] = t

NoParse == [t |-> "null"]

\* parseFilename(filename): null for a file that is no PNG, a female variant
\* or a versioned duplicate; else the species, the game and the mask flag
parseFilename(filename) ==
    IF ~EndsWith(filename, ".png") THEN NoParse
    ELSE IF \E i \in 1..Len(filename) : filename[i] \in {"_sf", "_v1"} THEN NoParse
    ELSE LET name == Front(filename)
             isMask == EndsWith(name, "_m")
             name2 == IF isMask THEN Front(name) ELSE name
             isAsa == EndsWith(name2, "_ASA")
         IN [t |-> "parsed",
             species |-> IF isAsa THEN Front(name2) ELSE name2,
             game |-> IF isAsa THEN "ASA" ELSE "ASE",
             isMask |-> isMask,
             filename |-> filename]

\* the R2 key of the upload loop: `${game}/${species}/base.png` or mask.png
UploadKey(game, species, isMask) ==
    KeyString(<<game, "/">> \o species
              \o <<"/", IF isMask THEN "mask" ELSE "base", ".png">>)

\* the scan of the source directory: every parsed file, filed under its game
\* and species as base or mask
ScanSource ==
    /\ upc = "scan"
    /\ spriteMap' = {parseFilename(f) : f \in sourceDir} \ {NoParse}
    /\ upc' = "upload"
    /\ UNCHANGED <<sourceDir, dryRun, bucket, manifest, workerVars, extractVars,
                   statVars, regionVars>>

\* the upload loop and the manifest: every base and mask file is put under its
\* R2 key, unless this is a dry run
UploadAll ==
    /\ upc = "upload"
    /\ bucket' = IF dryRun THEN bucket
                 ELSE [k \in {UploadKey(e.game, e.species, e.isMask) : e \in spriteMap} |->
                          CHOOSE e \in spriteMap :
                              UploadKey(e.game, e.species, e.isMask) = k]
                      @@ bucket
    /\ manifest' = [gs \in {<<e.game, e.species>> : e \in spriteMap} |->
                        [hasBase |-> \E e \in spriteMap :
                                        <<e.game, e.species>> = gs /\ ~e.isMask,
                         hasMask |-> \E e \in spriteMap :
                                        <<e.game, e.species>> = gs /\ e.isMask]]
    /\ upc' = "done"
    /\ UNCHANGED <<sourceDir, dryRun, spriteMap, workerVars, extractVars,
                   statVars, regionVars>>

\* env.SPRITES.get(key): the object stored under the key, or null
SpritesGet(key) == IF KeyString(key) \in DOMAIN bucket THEN "present" ELSE "absent"

\* the try block of a request whose two fetches are answered by the bucket
SpritesFromBucket(r, colorize, ext) ==
    /\ req[r].pc = "fetch"
    /\ Sprites(r, SpritesGet(BaseKey(SpeciesNameOf(BodyOf(r)), GameOf(BodyOf(r)))),
                  SpritesGet(MaskKey(SpeciesNameOf(BodyOf(r)), GameOf(BodyOf(r)))),
                  colorize, ext)

\* the files a source directory may hold
SourceFiles ==
    {<<"Rex", ".png">>, <<"Rex", "_m", ".png">>, <<"Rex", "_ASA", ".png">>,
     <<"Rex", "_ASA", "_m", ".png">>, <<"Dodo", ".png">>, <<"Dodo", "_sf", ".png">>,
     <<"notes", ".txt">>}

\* the body of a request for a species in a game
SpriteBody(species, game) ==
    MkObj([creature |-> MkObj([speciesName |-> Str(species),
                               levelsWild |-> Arr(Zeros(NumStats)),
                               levelsDom |-> Arr(Zeros(NumStats))]),
           game |-> game])

SpriteTexts ==
    {Json(SpriteBody(sp, g), 0) : sp \in {"Rex", "Dodo"}, g \in GameInputs}

InitUpload ==
    /\ WorkerInit /\ ExtractIdle /\ StatIdle /\ RegionIdle
    /\ sourceDir \in SUBSET SourceFiles
    /\ dryRun \in BOOLEAN
    /\ spriteMap = {} /\ bucket = <<>> /\ manifest = <<>>
    /\ upc = "scan"

\* An upload run, then one request to POST /api/infographic
NextUpload ==
    \/ ScanSource
    \/ UploadAll
    \/ /\ upc = "done"
       /\ req[1].pc = "idle"
       /\ \E text \in SpriteTexts : Arrive(1, "POST", "/api/infographic", text)
    \/ Probe(1)
    \/ Parse(1, "returns")
    \/ \E colorize \in ColorizeOutcomes : SpritesFromBucket(1, colorize, "returns")
    \/ PutLands(1)

SpecUpload == InitUpload /\ [][NextUpload]_vars

----------------------------------------------------------------------------
(* Region-color resolution over every region layout *)

ColorIdInputs == {0, 2, 201}

RegionColorInputs ==
    {Absent, Null}
    \cup {Arr(a) : a \in [1..3 -> ColorIdInputs]}
    \cup {Arr(a) : a \in [1..NumRegions -> ColorIdInputs]}

\* creature.colors is c.colors ?? [0, 0, 0, 0, 0, 0]; then the loop
ResolveRegions ==
    /\ regionOut = <<>>
    /\ regionOut' = ResolveRegionColors(regionIn.enabled,
                        Coalesce(regionIn.colors, Arr(<<0, 0, 0, 0, 0, 0>>)))
    /\ UNCHANGED <<regionIn, workerVars, extractVars, statVars, uploadVars>>

InitRegions ==
    /\ WorkerInit /\ ExtractIdle /\ StatIdle /\ UploadIdle
    /\ regionIn \in {[enabled |-> e, colors |-> c] :
                        e \in [1..NumRegions -> BOOLEAN], c \in RegionColorInputs}
    /\ regionOut = <<>>

SpecRegions == InitRegions /\ [][ResolveRegions]_vars

----------------------------------------------------------------------------
(* Properties of the request handler *)

\* r has entered handleInfographic and is past its cache probe
PastProbe(r) == req[r].text # NoText /\ req[r].pc \notin {"idle", "probe"}

SameKey(q, r) == BuildCacheKey(req[q].text) = BuildCacheKey(req[r].text)

\* the requests whose write under r's key had landed when r probed the cache
WritersAtProbe(r) == {q \in req[r].landed : SameKey(q, r)}

DidNothingElse(r) ==
    /\ ~req[r].parsed /\ ~req[r].lookedUp /\ ~req[r].computed
    /\ ~req[r].fetched /\ ~req[r].rendered /\ req[r].put = "none"

\* C1: a request that finds an entry under its key at the cache probe returns
\* that entry as its response, and for that request the body is never parsed,
\* the species never looked up, no stats computed, no sprite fetched, nothing
\* rendered and nothing written to the cache.
C1_HitReturnsCachedOnly ==
    \A r \in Reqs :
        PastProbe(r) =>
            /\ WritersAtProbe(r) # {} => req[r].hit
            /\ req[r].hit =>
                    /\ req[r].pc = "done"
                    /\ req[r].resp \in {req[q].resp : q \in WritersAtProbe(r)}
                    /\ DidNothingElse(r)

C1_Witness == \E r \in Reqs : req[r].hit /\ req[r].pc = "done"

\* r2 carries the same valid body as r1, started after r1's response was
\* returned, and no other request has written under that key before r2's probe
TwiceInARow(r1, r2) ==
    /\ r1 # r2
    /\ PastProbe(r2)
    /\ r1 \in req[r2].after
    /\ req[r1].rendered
    /\ req[r1].text = req[r2].text
    /\ \A q \in Reqs \ {r1, r2} : req[q].text = req[r2].text => q \notin req[r2].landed

ServedFromCache(r1, r2) ==
    /\ req[r2].hit
    /\ req[r2].resp = req[r1].resp
    /\ ~req[r2].computed
    /\ ~req[r2].rendered

\* C2 as stated: the second of two identical valid requests sent in a row is a
\* cache hit with the first response's output, in every schedule of the first
\* request's background cache write.
C2_HitInEverySchedule ==
    \A r1, r2 \in Reqs : TwiceInARow(r1, r2) => ServedFromCache(r1, r2)

\* C2 as amended: the second of two identical valid requests sent in a row is
\* a cache hit with the first response's output, computing and rendering
\* nothing, when the first request's background cache write has landed before
\* the second request's cache probe.
C2_HitOnceWriteLanded ==
    \A r1, r2 \in Reqs :
        TwiceInARow(r1, r2) /\ r1 \in req[r2].landed => ServedFromCache(r1, r2)

C2_Witness ==
    \E r1, r2 \in Reqs :
        TwiceInARow(r1, r2) /\ r1 \in req[r2].landed /\ req[r2].pc = "done"

\* what C3 calls a malformed body: the species name is missing, or levelsWild
\* or levelsDom is missing or is no array of exactly 12 elements
FieldOf(body, field) ==
    IF body.t = "obj" /\ "creature" \in DOMAIN body
    THEN IF body.creature.t = "obj" /\ field \in DOMAIN body.creature
         THEN body.creature[field] ELSE Absent
    ELSE Absent

Malformed(body) ==
    \/ FieldOf(body, "speciesName") \in {Absent, Str("")}
    \/ ~(FieldOf(body, "levelsWild").t = "arr" /\ Len(FieldOf(body, "levelsWild").a) = 12)
    \/ ~(FieldOf(body, "levelsDom").t = "arr" /\ Len(FieldOf(body, "levelsDom").a) = 12)

\* C3: a request that misses the cache with a body that parses as JSON and is
\* malformed ends in a 400 response carrying a JSON error, without a species
\* lookup, stat computation, sprite fetch or rendering; never in an unhandled
\* failure.
C3_MalformedIs400 ==
    \A r \in Reqs :
        (req[r].pc = "done" /\ req[r].parsed /\ req[r].text.t = "json"
            /\ Malformed(BodyOf(r)))
        => /\ req[r].resp.status = 400
           /\ req[r].resp.payload.kind = "error"
           /\ ~req[r].lookedUp /\ ~req[r].computed
           /\ ~req[r].fetched /\ ~req[r].rendered

\* C4: a well-formed request whose species name is no key of the species
\* table ends in a 400 response whose message names that species, without
\* stat computation, rendering or a cache write.
C4_UnregisteredIs400 ==
    \A r \in Reqs :
        (req[r].pc = "done" /\ req[r].parsed /\ req[r].text.t = "json"
            /\ ~Malformed(BodyOf(r))
            /\ FieldOf(BodyOf(r), "speciesName").s \notin DOMAIN SpeciesMeta)
        => /\ req[r].resp = JsonError(<<"Unknown species: ",
                                        FieldOf(BodyOf(r), "speciesName").s>>)
           /\ ~req[r].computed /\ ~req[r].rendered /\ req[r].put = "none"

\* the species of r's validated body is a key of the species table
Registered(r) == SpeciesNameOf(BodyOf(r)) \in DOMAIN SpeciesMeta

\* C5: whatever the two sprite fetches and colorization do, the handler goes
\* on to render dispatch: rendering gets no creature image when the base is
\* absent or a fetch or colorization fails, and the unmodified base image when
\* the base is present and the mask absent; a request with a valid body and a
\* registered species then returns the rendered response, never an error.
C5_SpriteFailuresStillRender ==
    \A r \in Reqs :
        req[r].fetched =>
            /\ req[r].pc \in {"init", "initwait", "done"}
            /\ (req[r].base \in {"absent", "fail"} \/ req[r].mask = "fail"
                    \/ req[r].colorize = "throw") => req[r].image = NoImage
            /\ (req[r].base = "present" /\ req[r].mask = "absent") =>
                    req[r].image = [t |-> "datauri", image |-> "base",
                                    key |-> BaseKey(SpeciesNameOf(BodyOf(r)),
                                                    GameOf(BodyOf(r)))]
            /\ (req[r].pc = "done" /\ Registered(r)) =>
                    /\ req[r].rendered
                    /\ req[r].resp.status = 200
                    /\ req[r].resp.payload.kind = "infographic"
                    /\ req[r].resp.payload.image = req[r].image

C5_Witness ==
    \E r \in Reqs :
        /\ req[r].pc = "done" /\ req[r].rendered
        /\ req[r].colorize = "throw" /\ req[r].image = NoImage

\* r has handed a response to the cache
Wrote(r) == req[r].put # "none"

SameSpriteAnswers(r1, r2) ==
    /\ req[r1].base = req[r2].base
    /\ req[r1].mask = req[r2].mask
    /\ req[r1].colorize = req[r2].colorize

\* C6 as stated: all requests with the same body write the same response
\* under its key, also when the sprite store answers them differently.
C6_SameBodySameWrite ==
    \A r1, r2 \in Reqs :
        (Wrote(r1) /\ Wrote(r2) /\ req[r1].text = req[r2].text)
        => req[r1].resp = req[r2].resp

\* C6 as amended: any two responses written under the same cache key by
\* requests that the sprite store and colorization answered alike are the same
\* response, so among such requests the order of the writes does not matter.
C6_SameAnswersSameWrite ==
    \A r1, r2 \in Reqs :
        (Wrote(r1) /\ Wrote(r2) /\ SameKey(r1, r2) /\ SameSpriteAnswers(r1, r2))
        => req[r1].resp = req[r2].resp

C6_Witness ==
    \E r1, r2 \in Reqs :
        /\ r1 # r2
        /\ req[r1].put = "landed" /\ req[r2].put = "landed"
        /\ req[r1].text = req[r2].text
        /\ SameSpriteAnswers(r1, r2)
        /\ cache[BuildCacheKey(req[r1].text)] = req[r2].resp

ServedPairs ==
    {<<"POST", "/api/infographic">>, <<"GET", "/api/species">>, <<"GET", "/api/health">>}

\* C7: the dispatcher serves POST /api/infographic, GET /api/species and
\* GET /api/health (200, text/plain) and answers every other method and path
\* with 404.
C7_OnlyThreeRoutes ==
    \A r \in Reqs :
        req[r].pc # "idle" =>
            IF <<req[r].method, req[r].path>> \in ServedPairs
            THEN \/ req[r].path = "/api/infographic" /\ req[r].text # NoText
                 \/ req[r].path # "/api/infographic" /\ req[r].resp.status = 200
            ELSE req[r].pc = "done" /\ req[r].resp.status = 404

\* the creature of r's rendered response, and the level arrays of r's body
Rendered(r) == req[r].resp.payload.creature
WildOf(r) == FieldOf(BodyOf(r), "levelsWild").a
DomOf(r) == FieldOf(BodyOf(r), "levelsDom").a

\* the 12 entries of a level array added up
Sum12(a) ==
    a[1] + a[2] + a[3] + a[4] + a[5] + a[6] + a[7] + a[8] + a[9] + a[10] + a[11] + a[12]

\* C11: for every request with valid 12-length numeric level arrays, the
\* creature handed to the renderer has level = levelsWild[2] + 1 + the sum of
\* the 12 levelsDom entries and levelHatched = levelsWild[2] + 1, whatever the
\* request body carries under creature.level and creature.levelHatched.
C11_LevelsComputed ==
    \A r \in Reqs :
        req[r].rendered =>
            /\ Rendered(r).level = WildOf(r)[3] + 1 + Sum12(DomOf(r))
            /\ Rendered(r).levelHatched = WildOf(r)[3] + 1

C11_Witness ==
    \E r \in Reqs :
        /\ req[r].rendered
        /\ FieldOf(BodyOf(r), "level") = Num(99)
        /\ FieldOf(BodyOf(r), "levelHatched") = Num(99)
        /\ WildOf(r)[2] = MaxLevel /\ WildOf(r)[3] = 1
        /\ DomOf(r)[1] = MaxLevel /\ DomOf(r)[12] = MaxLevel
        /\ Rendered(r).level = 2 + 2 * MaxLevel
        /\ Rendered(r).levelHatched = 2

\* C13: in every interleaving of the ensureInitialized calls of concurrently
\* active PNG requests, also when a second call starts while the first is
\* suspended awaiting initRasterizer, initRasterizer is invoked at most once
\* per process.
C13_InitAtMostOnce == initCalls <= 1

----------------------------------------------------------------------------
(* Properties of the extraction and of the lookups *)

NumBase == Len(values.colorDefinitions)
NumDye == Len(values.dyeDefinitions)

IdsInjective == Cardinality({colors[k].id : k \in 1..Len(colors)}) = Len(colors)

\* base colors hold 1..N and dyes 201..200+M, each in input order
IdsPositional ==
    /\ Len(colors) = NumBase + NumDye
    /\ \A i \in 1..NumBase :
            /\ colors[i].id = i
            /\ colors[i].name = values.colorDefinitions[i][1]
            /\ ~colors[i].isDye
    /\ \A i \in 1..NumDye :
            /\ colors[NumBase + i].id = 200 + i
            /\ colors[NumBase + i].name = values.dyeDefinitions[i][1]
            /\ colors[NumBase + i].isDye

\* C8 as stated: for every N and M the table's ids are pairwise distinct,
\* base colors hold 1..N and dyes 201..200+M in input order, and the runtime
\* map keeps one entry per extracted color.
C8_InjectiveForAllSizes ==
    /\ xpc # "start" => IdsPositional /\ IdsInjective
    /\ xpc = "loaded" => Cardinality(DOMAIN colorMap) = NumBase + NumDye

\* C8 as amended: base colors hold 1..N and dyes 201..200+M in input order
\* for every N and M; the ids are pairwise distinct, and the runtime map keeps
\* one entry per extracted color, exactly when N <= 200 or M = 0.
C8_InjectiveUpTo200 ==
    /\ xpc # "start" =>
            /\ IdsPositional
            /\ IdsInjective <=> (NumBase <= 200 \/ NumDye = 0)
    /\ xpc = "loaded" =>
            (Cardinality(DOMAIN colorMap) = NumBase + NumDye
                <=> (NumBase <= 200 \/ NumDye = 0))

C8_Witness ==
    /\ xpc = "loaded" /\ NumBase = 200 /\ NumDye = 2
    /\ DOMAIN colorMap = (1..200) \cup {201, 202}

\* C9: applyStatMultiplier keeps index 0, multiplies index 1 by WildLevel and
\* index 2 by DomLevel, and multiplies index 3 by TamingAdd and index 4 by
\* TamingMult only when the input value is > 0, leaving zero and negative
\* values as they are.
C9_StatMultiplier ==
    statOut # <<>> =>
        /\ Len(statOut) = 5
        /\ statOut[1] = statIn.raw[1]
        /\ statOut[2] = statIn.raw[2] * statIn.mult[4]
        /\ statOut[3] = statIn.raw[3] * statIn.mult[3]
        /\ statOut[4] = IF statIn.raw[4] > 0 THEN statIn.raw[4] * statIn.mult[1]
                        ELSE statIn.raw[4]
        /\ statOut[5] = IF statIn.raw[5] > 0 THEN statIn.raw[5] * statIn.mult[2]
                        ELSE statIn.raw[5]

C9_Witness ==
    /\ statOut # <<>>
    /\ statIn.raw[4] < 0 /\ statIn.mult[1] = MaxMult /\ statOut[4] = statIn.raw[4]
    /\ statIn.raw[5] > 0 /\ statIn.mult[2] = MaxMult /\ statOut[5] > statIn.raw[5]

\* the request supplies an id for the 0-based region index i
IdSupplied(i) == regionIn.colors.t = "arr" /\ i + 1 <= Len(regionIn.colors.a)

\* C10: region i resolves to the ColorLookup value of the request's color id
\* when the species has region i enabled and the id is present and non-zero,
\* and to "no color" otherwise; the resolved list has exactly 6 entries.
C10_RegionColors ==
    regionOut # <<>> =>
        /\ Len(regionOut) = 6
        /\ \A i \in 0..5 :
                IF /\ regionIn.enabled[i + 1]
                   /\ IdSupplied(i)
                   /\ regionIn.colors.a[i + 1] # 0
                THEN regionOut[i + 1] = Rgb(getColor(regionIn.colors.a[i + 1]))
                ELSE regionOut[i + 1] = NoColor

C10_Witness ==
    /\ regionOut # <<>>
    /\ ~regionIn.enabled[4] /\ IdSupplied(3) /\ regionIn.colors.a[4] # 0
    /\ regionOut[4] = NoColor
    /\ regionIn.enabled[1] /\ IdSupplied(0) /\ regionIn.colors.a[1] = 201
    /\ regionOut[1] = Rgb(RuntimeColorMap[201])

----------------------------------------------------------------------------
(* Properties of the extraction run *)

\* the preset the multiplier document holds under the given name: Absent when
\* the document cannot be read or parsed, or has no such preset
NamedPreset ==
    IF /\ serverMultsFile.t = "json"
       /\ serverMultsFile.json.t = "obj"
       /\ "serverMultiplierDictionary" \in DOMAIN serverMultsFile.json
       /\ serverMultsFile.json.serverMultiplierDictionary.t = "obj"
       /\ preset \in DOMAIN serverMultsFile.json.serverMultiplierDictionary
    THEN serverMultsFile.json.serverMultiplierDictionary[preset]
    ELSE Absent

\* the preset's list of stat multipliers, Absent when it has none
NamedList ==
    IF NamedPreset.t = "obj" /\ "statMultipliers" \in DOMAIN NamedPreset
       /\ NamedPreset.statMultipliers.t = "arr"
    THEN NamedPreset.statMultipliers
    ELSE Absent

\* the preset has an entry for the 0-based slot i
HasEntry(i) ==
    /\ NamedList # Absent
    /\ i + 1 <= Len(NamedList.a)
    /\ NamedList.a[i + 1] # Null

\* the upstream species sp has a full stat tuple in the 0-based slot i
HasStat(sp, i) ==
    /\ sp.fullStatsRaw.t = "arr"
    /\ i + 1 <= Len(sp.fullStatsRaw.a)
    /\ sp.fullStatsRaw.a[i + 1] # Null
    /\ Len(sp.fullStatsRaw.a[i + 1].a) >= 5

\* the slot i of sp in the written species table
WrittenStat(sp, i) == outputs["species-meta.json"][sp.name].fullStatsRaw[i + 1]

BothWritten ==
    /\ DOMAIN outputs = {"colors.json", "species-meta.json"}
    /\ outputs["colors.json"] = extractColors(values)
    /\ DOMAIN outputs["species-meta.json"] =
            {values.species[k].name : k \in 1..Len(values.species)}

\* C12: with a readable, parsable upstream document the run never aborts and
\* writes both tables; when the multiplier document cannot be read or parsed,
\* or lacks the named preset, or the preset has no stat multipliers, a warning
\* is emitted and every stat slot is written as under the identity multiplier;
\* when the preset has multipliers, each slot is scaled by the preset's entry
\* for it, and a slot without an entry alone is written as under identity.
C12_IdentityFallback ==
    valuesFile.t = "json" =>
        /\ xpc # "aborted"
        /\ xpc \notin {"done", "aborted"} => ENABLED NextRun
        /\ xpc = "done" =>
            /\ BothWritten
            /\ NamedList = Absent => warnings # <<>>
            /\ \A k \in 1..Len(values.species), i \in 0..(NumStats - 1) :
                LET sp == values.species[k] IN
                  IF ~HasStat(sp, i) THEN WrittenStat(sp, i) = Null
                  ELSE IF HasEntry(i)
                  THEN WrittenStat(sp, i) =
                          Arr(applyStatMultiplier(SubSeq(sp.fullStatsRaw.a[i + 1].a, 1, 5),
                                                  NamedList.a[i + 1].a))
                  ELSE WrittenStat(sp, i) = Arr(SubSeq(sp.fullStatsRaw.a[i + 1].a, 1, 5))

C12_Witness ==
    /\ xpc = "done" /\ valuesFile.t = "json"
    /\ serverMultsFile = Unreadable
    /\ warnings # <<>>
    /\ DOMAIN outputs = {"colors.json", "species-meta.json"}
    /\ outputs["species-meta.json"]["Rex"].fullStatsRaw[1] = Arr(<<MaxRaw, 1, 1, MaxRaw, 1>>)

----------------------------------------------------------------------------
(* Properties of the sprite upload *)

\* the source directory holds the base, respectively mask, image of the
\* species for the game of r's request: a file named as the header of
\* upload-sprites.ts lays out
SourceHas(key) == \E f \in sourceDir : KeyString(f) = KeyString(key)

\* C14: the key under which the upload stores a species' base, respectively
\* mask, image for a game is the key the request handler fetches for it, so a
\* request made after an upload finds the base and the mask that the source
\* directory held for its species and game.
C14_UploadedSpriteFound ==
    /\ \A k \in DOMAIN bucket :
            k = KeyString(IF bucket[k].isMask
                          THEN MaskKey(bucket[k].species[1], bucket[k].game)
                          ELSE BaseKey(bucket[k].species[1], bucket[k].game))
    /\ \A r \in Reqs :
            (req[r].fetched /\ upc = "done" /\ ~dryRun) =>
                /\ SourceHas(BaseKey(SpeciesNameOf(BodyOf(r)), GameOf(BodyOf(r))))
                        => req[r].base = "present"
                /\ SourceHas(MaskKey(SpeciesNameOf(BodyOf(r)), GameOf(BodyOf(r))))
                        => req[r].mask = "present"

====
